---- MODULE Spec2Model ----
(***************************************************************************)
(* Command -> WireMessage encoding of jupyter-client (src/commands.rs).     *)
(*                                                                         *)
(* Byte buffers are sequences of one-character strings.  A Rust String is  *)
(* a sequence of characters drawn from Chars.  A HashMap instance is the   *)
(* sequence of its (key, value) entries in that instance's iteration       *)
(* order, with pairwise distinct keys.                                     *)
(***************************************************************************)
EXTENDS Integers, Sequences, FiniteSets, TLC

(***************************************************************************)
(* Bounds of the model.                                                    *)
(***************************************************************************)
MaxStrLen == 1

NThreads == 2

\* Characters a String may hold: one that JSON leaves alone and the ones
\* serde_json escapes with a two-character sequence.
Chars == {"a", "\"", "\\", "\n"}

RECURSIVE SeqsUpTo(_, _)
SeqsUpTo(S, n) ==
    IF n = 0 THEN {<<>>}
    ELSE LET shorter == SeqsUpTo(S, n - 1)
         IN  shorter \cup {Append(s, c) : s \in {x \in shorter : Len(x) = n - 1}, c \in S}

Strs == SeqsUpTo(Chars, MaxStrLen)

\* u64 and i64 samples: zero, a one-digit and a two-digit value, a negative.
U64s == {0, 7, 10}

I64s == {-12, 0, 3}

(***************************************************************************)
(* JSON field names, as the bytes of the Rust identifiers.                 *)
(***************************************************************************)
K_code ==
    <<"c", "o", "d", "e">>

K_silent ==
    <<"s", "i", "l", "e", "n", "t">>

K_store_history ==
    <<"s", "t", "o", "r", "e", "_", "h", "i", "s", "t", "o", "r", "y">>

K_user_expressions ==
    <<"u", "s", "e", "r", "_", "e", "x", "p", "r", "e", "s", "s", "i", "o", "n", "s">>

K_allow_stdin ==
    <<"a", "l", "l", "o", "w", "_", "s", "t", "d", "i", "n">>

K_stop_on_error ==
    <<"s", "t", "o", "p", "_", "o", "n", "_", "e", "r", "r", "o", "r">>

K_cursor_pos ==
    <<"c", "u", "r", "s", "o", "r", "_", "p", "o", "s">>

K_detail_level ==
    <<"d", "e", "t", "a", "i", "l", "_", "l", "e", "v", "e", "l">>

K_output ==
    <<"o", "u", "t", "p", "u", "t">>

K_raw ==
    <<"r", "a", "w">>

K_unique ==
    <<"u", "n", "i", "q", "u", "e">>

K_hist_access_type ==
    <<"h", "i", "s", "t", "_", "a", "c", "c", "e", "s", "s", "_", "t", "y", "p", "e">>

K_session ==
    <<"s", "e", "s", "s", "i", "o", "n">>

K_start ==
    <<"s", "t", "a", "r", "t">>

K_stop ==
    <<"s", "t", "o", "p">>

K_n ==
    <<"n">>

K_pattern ==
    <<"p", "a", "t", "t", "e", "r", "n">>

K_restart ==
    <<"r", "e", "s", "t", "a", "r", "t">>

\* The string literal "tail" of the History arm.
TailLiteral ==
    <<"t", "a", "i", "l">>

\* Variant names of HistoryAccessType, the keys of its derived serialization.
K_Tail ==
    <<"T", "a", "i", "l">>

K_Range ==
    <<"R", "a", "n", "g", "e">>

K_Search ==
    <<"S", "e", "a", "r", "c", "h">>

(***************************************************************************)
(* The serde data model as serde_json's serializer receives it.  An object *)
(* is the sequence of its (key, value) entries in emission order.          *)
(***************************************************************************)
JNull == [t |-> "null"]

JBool(b) == [t |-> "bool", b |-> b]

JNum(n) == [t |-> "num", n |-> n]

JStr(s) == [t |-> "str", s |-> s]

JObj(fields) == [t |-> "obj", fields |-> fields]

\* A decoded JSON object: a function from its keys to the decoded values.
JMap(m) == [t |-> "map", m |-> m]

EmptyBytes == <<"{", "}">>

(***************************************************************************)
(* serde_json::to_string: compact rendering of a value to bytes.           *)
(***************************************************************************)
DigitChars == <<"0", "1", "2", "3", "4", "5", "6", "7", "8", "9">>

RECURSIVE RenderNat(_)
RenderNat(n) ==
    IF n < 10 THEN <<DigitChars[n + 1]>>
    ELSE RenderNat(n \div 10) \o <<DigitChars[(n % 10) + 1]>>

RenderInt(n) ==
    IF n < 0 THEN <<"-">> \o RenderNat(0 - n) ELSE RenderNat(n)

EscapeChar(c) ==
    IF c = "\"" THEN <<"\\", "\"">>
    ELSE IF c = "\\" THEN <<"\\", "\\">>
    ELSE IF c = "\n" THEN <<"\\", "n">>
    ELSE <<c>>

RECURSIVE EscapeStr(_)
EscapeStr(s) ==
    IF s = <<>> THEN <<>> ELSE EscapeChar(Head(s)) \o EscapeStr(Tail(s))

RenderStr(s) == <<"\"">> \o EscapeStr(s) \o <<"\"">>

RECURSIVE Render(_)
RECURSIVE RenderFields(_)
RenderFields(fields) ==
    IF fields = <<>> THEN <<>>
    ELSE RenderStr(fields[1][1]) \o <<":">> \o Render(fields[1][2])
         \o (IF Len(fields) = 1 THEN <<>> ELSE <<",">> \o RenderFields(Tail(fields)))

Render(v) ==
    CASE v.t = "null" -> <<"n", "u", "l", "l">>
      [] v.t = "bool" -> IF v.b THEN <<"t", "r", "u", "e">> ELSE <<"f", "a", "l", "s", "e">>
      [] v.t = "num"  -> RenderInt(v.n)
      [] v.t = "str"  -> RenderStr(v.s)
      [] v.t = "obj"  -> <<"{">> \o RenderFields(v.fields) \o <<"}">>

(***************************************************************************)
(* Decoding a buffer as JSON (the reader the properties are stated over):  *)
(* a recursive-descent parser over the bytes.  A parse step yields         *)
(* [ok, v, i]: the decoded value and the index after it.                   *)
(***************************************************************************)
ParseFail == [ok |-> FALSE]

IsDigit(c) == \E d \in 1..10 : DigitChars[d] = c

DigitVal(c) == (CHOOSE d \in 1..10 : DigitChars[d] = c) - 1

Matches(s, i, lit) ==
    /\ i + Len(lit) - 1 <= Len(s)
    /\ \A k \in 1..Len(lit) : s[i + k - 1] = lit[k]

RECURSIVE ParseDigits(_, _, _)
ParseDigits(s, i, acc) ==
    IF i <= Len(s) /\ IsDigit(s[i])
    THEN ParseDigits(s, i + 1, acc * 10 + DigitVal(s[i]))
    ELSE [ok |-> TRUE, v |-> acc, i |-> i]

ParseNumber(s, i) ==
    LET neg  == s[i] = "-"
        from == IF neg THEN i + 1 ELSE i
    IN  IF from > Len(s) \/ ~IsDigit(s[from]) THEN ParseFail
        ELSE LET r == ParseDigits(s, from, 0)
             IN  [ok |-> TRUE, v |-> JNum(IF neg THEN 0 - r.v ELSE r.v), i |-> r.i]

RECURSIVE ParseStrFrom(_, _, _)
ParseStrFrom(s, i, acc) ==
    IF i > Len(s) THEN ParseFail
    ELSE IF s[i] = "\"" THEN [ok |-> TRUE, v |-> acc, i |-> i + 1]
    ELSE IF s[i] = "\\"
         THEN IF i + 1 > Len(s) THEN ParseFail
              ELSE IF s[i + 1] = "\"" THEN ParseStrFrom(s, i + 2, Append(acc, "\""))
              ELSE IF s[i + 1] = "\\" THEN ParseStrFrom(s, i + 2, Append(acc, "\\"))
              ELSE IF s[i + 1] = "n" THEN ParseStrFrom(s, i + 2, Append(acc, "\n"))
              ELSE ParseFail
    ELSE IF s[i] = "\n" THEN ParseFail
    ELSE ParseStrFrom(s, i + 1, Append(acc, s[i]))

\* m extended (or overwritten) at key k.
MapPut(m, k, v) ==
    [x \in DOMAIN m \cup {k} |-> IF x = k THEN v ELSE m[x]]

EmptyMap == [x \in {} |-> JNull]

RECURSIVE ParseValue(_, _)
RECURSIVE ParseMembers(_, _, _)
ParseMembers(s, i, m) ==
    IF i > Len(s) \/ s[i] # "\"" THEN ParseFail
    ELSE LET k == ParseStrFrom(s, i + 1, <<>>)
         IN  IF ~k.ok \/ k.i > Len(s) \/ s[k.i] # ":" THEN ParseFail
             ELSE LET e == ParseValue(s, k.i + 1)
                  IN  IF ~e.ok \/ e.i > Len(s) THEN ParseFail
                      ELSE IF s[e.i] = "}"
                           THEN [ok |-> TRUE, v |-> JMap(MapPut(m, k.v, e.v)), i |-> e.i + 1]
                      ELSE IF s[e.i] = ","
                           THEN ParseMembers(s, e.i + 1, MapPut(m, k.v, e.v))
                      ELSE ParseFail

ParseValue(s, i) ==
    IF i > Len(s) THEN ParseFail
    ELSE IF Matches(s, i, <<"n", "u", "l", "l">>)
         THEN [ok |-> TRUE, v |-> JNull, i |-> i + 4]
    ELSE IF Matches(s, i, <<"t", "r", "u", "e">>)
         THEN [ok |-> TRUE, v |-> JBool(TRUE), i |-> i + 4]
    ELSE IF Matches(s, i, <<"f", "a", "l", "s", "e">>)
         THEN [ok |-> TRUE, v |-> JBool(FALSE), i |-> i + 5]
    ELSE IF s[i] = "\""
         THEN LET r == ParseStrFrom(s, i + 1, <<>>)
              IN  IF r.ok THEN [ok |-> TRUE, v |-> JStr(r.v), i |-> r.i] ELSE ParseFail
    ELSE IF s[i] = "{"
         THEN IF i + 1 <= Len(s) /\ s[i + 1] = "}"
              THEN [ok |-> TRUE, v |-> JMap(EmptyMap), i |-> i + 2]
              ELSE ParseMembers(s, i + 1, EmptyMap)
    ELSE IF s[i] = "-" \/ IsDigit(s[i]) THEN ParseNumber(s, i)
    ELSE ParseFail

\* The whole buffer as one JSON value, or [t |-> "invalid"].
Decode(bytes) ==
    LET r == ParseValue(bytes, 1)
    IN  IF r.ok /\ r.i = Len(bytes) + 1 THEN r.v ELSE [t |-> "invalid"]

(***************************************************************************)
(* The request model: Command, HistoryAccessType, DetailLevel.             *)
(***************************************************************************)
DetailLevel == {"Zero", "One"}

HistoryAccessType ==
    [kind : {"Tail"}, n : U64s]
    \cup [kind : {"Range"}, session : I64s, start : U64s, stop : U64s]
    \cup [kind : {"Search"}, pattern : Strs]

\* HashMap<String, String> instances with at most two entries: the entries
\* in the instance's iteration order, keys pairwise distinct.
MapKeys == {<<"a">>, <<"\"">>}

MapVals == {<<>>, <<"\\", "\n">>}

HashMaps ==
    {<<>>}
    \cup {<<<<k, v>>>> : k \in MapKeys, v \in MapVals}
    \cup {h \in {<<<<k1, v1>>, <<k2, v2>>>> :
                    k1 \in MapKeys, k2 \in MapKeys, v1 \in MapVals, v2 \in MapVals} :
            h[1][1] # h[2][1]}

Command ==
    [variant : {"KernelInfo"}]
    \cup [variant : {"Execute"}, code : Strs, silent : BOOLEAN, store_history : BOOLEAN,
          user_expressions : HashMaps, allow_stdin : BOOLEAN, stop_on_error : BOOLEAN]
    \cup [variant : {"Inspect"}, code : Strs, cursor_pos : U64s, detail_level : DetailLevel]
    \cup [variant : {"Complete"}, code : Strs, cursor_pos : U64s]
    \cup [variant : {"History"}, output : BOOLEAN, raw : BOOLEAN,
          hist_access_type : HistoryAccessType, unique : BOOLEAN]
    \cup [variant : {"IsComplete"}, code : Strs]
    \cup [variant : {"Shutdown"}, restart : BOOLEAN]

\* The authentication capability handed to into_wire: an opaque value.
Auths == {"mac1", "mac2"}

(***************************************************************************)
(* Serialization of the request model.                                     *)
(***************************************************************************)

\* Mutant: DetailLevel serialized as a derived unit variant (its name).
SerializeDetailLevel_AsName(d) ==
    CASE d = "Zero" -> JStr(<<"Z", "e", "r", "o">>)
      [] d = "One"  -> JStr(<<"O", "n", "e">>)

\* impl Serialize for DetailLevel: serialize_i32(0) / serialize_i32(1).
SerializeDetailLevel(d) ==
    CASE d = "Zero" -> JNum(0)
      [] d = "One"  -> JNum(1)

\* HashMap<String, String>: a JSON object of string values, entries in the
\* instance's iteration order.
SerializeHashMap(h) ==
    JObj([i \in 1..Len(h) |-> <<h[i][1], JStr(h[i][2])>>])

\* #[derive(Serialize)] on HistoryAccessType: externally tagged.
SerializeHistoryAccessType(h) ==
    CASE h.kind = "Tail" ->
            JObj(<< <<K_Tail, JObj(<< <<K_n, JNum(h.n)>> >>)>> >>)
      [] h.kind = "Range" ->
            JObj(<< <<K_Range, JObj(<< <<K_session, JNum(h.session)>>,
                                       <<K_start, JNum(h.start)>>,
                                       <<K_stop, JNum(h.stop)>> >>)>> >>)
      [] h.kind = "Search" ->
            JObj(<< <<K_Search, JObj(<< <<K_pattern, JStr(h.pattern)>> >>)>> >>)


\* Mutant: Execute's silent and store_history values under each other's key.
SerializeCommand_SwappedFields(r) ==
    CASE r.variant = "Execute" ->
            JObj(<< <<K_code, JStr(r.code)>>,
                    <<K_silent, JBool(r.store_history)>>,
                    <<K_store_history, JBool(r.silent)>>,
                    <<K_user_expressions, SerializeHashMap(r.user_expressions)>>,
                    <<K_allow_stdin, JBool(r.allow_stdin)>>,
                    <<K_stop_on_error, JBool(r.stop_on_error)>> >>)
      [] r.variant = "Inspect" ->
            JObj(<< <<K_code, JStr(r.code)>>,
                    <<K_cursor_pos, JNum(r.cursor_pos)>>,
                    <<K_detail_level, SerializeDetailLevel(r.detail_level)>> >>)
      [] r.variant = "Complete" ->
            JObj(<< <<K_code, JStr(r.code)>>,
                    <<K_cursor_pos, JNum(r.cursor_pos)>> >>)
      [] OTHER -> JNull

\* #[derive(Serialize)] #[serde(untagged)] on Command: the active variant's
\* fields in declaration order, with no key naming the variant; the unit
\* variant serializes as unit (JSON null).
SerializeCommand(r) ==
    CASE r.variant = "KernelInfo" -> JNull
      [] r.variant = "Execute" ->
            JObj(<< <<K_code, JStr(r.code)>>,
                    <<K_silent, JBool(r.silent)>>,
                    <<K_store_history, JBool(r.store_history)>>,
                    <<K_user_expressions, SerializeHashMap(r.user_expressions)>>,
                    <<K_allow_stdin, JBool(r.allow_stdin)>>,
                    <<K_stop_on_error, JBool(r.stop_on_error)>> >>)
      [] r.variant = "Inspect" ->
            JObj(<< <<K_code, JStr(r.code)>>,
                    <<K_cursor_pos, JNum(r.cursor_pos)>>,
                    <<K_detail_level, SerializeDetailLevel(r.detail_level)>> >>)
      [] r.variant = "Complete" ->
            JObj(<< <<K_code, JStr(r.code)>>,
                    <<K_cursor_pos, JNum(r.cursor_pos)>> >>)
      [] r.variant = "History" ->
            JObj(<< <<K_output, JBool(r.output)>>,
                    <<K_raw, JBool(r.raw)>>,
                    <<K_hist_access_type, SerializeHistoryAccessType(r.hist_access_type)>>,
                    <<K_unique, JBool(r.unique)>> >>)
      [] r.variant = "IsComplete" ->
            JObj(<< <<K_code, JStr(r.code)>> >>)
      [] r.variant = "Shutdown" ->
            JObj(<< <<K_restart, JBool(r.restart)>> >>)

\* serde_json's Map keeps its keys in byte order; these are the keys the
\* json! objects of into_wire use, ascending.
ValueKeyOrder ==
    <<K_code, K_hist_access_type, K_n, K_output, K_pattern, K_raw, K_restart,
      K_session, K_start, K_stop, K_unique>>

\* The entry of the last field named k (a later insert overwrites).
LastField(fields, k) ==
    fields[CHOOSE i \in 1..Len(fields) :
              /\ fields[i][1] = k
              /\ \A j \in (i + 1)..Len(fields) : fields[j][1] # k]

\* json!({ ... }): a Value::Object holding the listed entries, which
\* serializes them in key order.
JsonObject(fields) ==
    LET present(k) == \E i \in 1..Len(fields) : fields[i][1] = k
        keys == SelectSeq(ValueKeyOrder, present)
    IN  JObj([i \in 1..Len(keys) |-> LastField(fields, keys[i])])

(***************************************************************************)
(* Collaborators of into_wire.                                             *)
(***************************************************************************)
\* Header::new(msg_type): a header carrying the message type and a fresh
\* message id.
MsgIds == {"id1", "id2"}

Header_new(msg_type, id) == [msg_type |-> msg_type, msg_id |-> id]

\* Header::to_bytes on success: the header's encoding, kept as the tokens
\* of its fields.
Header_to_bytes(h) == <<"{", h.msg_id, h.msg_type, "}">>

\* The error values the two fallible calls can return.
HeaderError == "header_error"

JsonError == "serde_json_error"

\* The conversion `?` applies to the error of a failed call.
ErrorFrom(e) ==
    CASE e = HeaderError -> "HeaderEncoding"
      [] e = JsonError   -> "ContentEncoding"

None == [none |-> TRUE]

Ok(v) == [ok |-> TRUE, v |-> v]

Err(e) == [ok |-> FALSE, e |-> e]

IsOk(r) == r # None /\ r.ok

IsErr(r) == r # None /\ ~r.ok

(***************************************************************************)
(* Command::into_wire, arm by arm.                                         *)
(***************************************************************************)

\* Mutant: the Complete arm keeps the literal of the arm it was copied from.
MsgTypeOf_CopyPaste(c) ==
    CASE c.variant = "KernelInfo" -> "kernel_info_request"
      [] c.variant = "Execute"    -> "execute_request"
      [] c.variant = "Inspect"    -> "inspect_request"
      [] c.variant = "Complete"   -> "inspect_request"
      [] c.variant = "History"    -> "history_request"
      [] c.variant = "IsComplete" -> "is_complete_request"
      [] c.variant = "Shutdown"   -> "shutdown_request"

\* The string literal each arm passes to Header::new.
MsgTypeOf(c) ==
    CASE c.variant = "KernelInfo" -> "kernel_info_request"
      [] c.variant = "Execute"    -> "execute_request"
      [] c.variant = "Inspect"    -> "inspect_request"
      [] c.variant = "Complete"   -> "complete_request"
      [] c.variant = "History"    -> "history_request"
      [] c.variant = "IsComplete" -> "is_complete_request"
      [] c.variant = "Shutdown"   -> "shutdown_request"


\* Mutant: the Range and Search branches leave out the keys they do not use.
HistoryContent_OmitUnused(output, raw, hist_access_type, unique) ==
    CASE hist_access_type.kind = "Tail" ->
            JsonObject(<< <<K_output, JBool(output)>>,
                          <<K_raw, JBool(raw)>>,
                          <<K_unique, JBool(unique)>>,
                          <<K_hist_access_type, JStr(TailLiteral)>>,
                          <<K_session, JNull>>,
                          <<K_start, JNull>>,
                          <<K_stop, JNull>>,
                          <<K_n, JNum(hist_access_type.n)>>,
                          <<K_pattern, JNull>> >>)
      [] hist_access_type.kind = "Range" ->
            JsonObject(<< <<K_output, JBool(output)>>,
                          <<K_raw, JBool(raw)>>,
                          <<K_unique, JBool(unique)>>,
                          <<K_hist_access_type, JStr(TailLiteral)>>,
                          <<K_session, JNum(hist_access_type.session)>>,
                          <<K_start, JNum(hist_access_type.start)>>,
                          <<K_stop, JNum(hist_access_type.stop)>> >>)
      [] hist_access_type.kind = "Search" ->
            JsonObject(<< <<K_output, JBool(output)>>,
                          <<K_raw, JBool(raw)>>,
                          <<K_unique, JBool(unique)>>,
                          <<K_hist_access_type, JStr(TailLiteral)>>,
                          <<K_pattern, JStr(hist_access_type.pattern)>> >>)

\* Mutant: hist_access_type names the supplied access type.
HistoryContent_NamesAccessType(output, raw, hist_access_type, unique) ==
    CASE hist_access_type.kind = "Tail" ->
            JsonObject(<< <<K_output, JBool(output)>>,
                          <<K_raw, JBool(raw)>>,
                          <<K_unique, JBool(unique)>>,
                          <<K_hist_access_type, JStr(TailLiteral)>>,
                          <<K_session, JNull>>,
                          <<K_start, JNull>>,
                          <<K_stop, JNull>>,
                          <<K_n, JNum(hist_access_type.n)>>,
                          <<K_pattern, JNull>> >>)
      [] hist_access_type.kind = "Range" ->
            JsonObject(<< <<K_output, JBool(output)>>,
                          <<K_raw, JBool(raw)>>,
                          <<K_unique, JBool(unique)>>,
                          <<K_hist_access_type, JStr(<<"r", "a", "n", "g", "e">>)>>,
                          <<K_session, JNum(hist_access_type.session)>>,
                          <<K_start, JNum(hist_access_type.start)>>,
                          <<K_stop, JNum(hist_access_type.stop)>>,
                          <<K_n, JNull>>,
                          <<K_pattern, JNull>> >>)
      [] hist_access_type.kind = "Search" ->
            JsonObject(<< <<K_output, JBool(output)>>,
                          <<K_raw, JBool(raw)>>,
                          <<K_unique, JBool(unique)>>,
                          <<K_hist_access_type, JStr(<<"s", "e", "a", "r", "c", "h">>)>>,
                          <<K_session, JNull>>,
                          <<K_start, JNull>>,
                          <<K_stop, JNull>>,
                          <<K_n, JNull>>,
                          <<K_pattern, JStr(hist_access_type.pattern)>> >>)

\* The json! object of the History arm, per access type.
HistoryContent(output, raw, hist_access_type, unique) ==
    CASE hist_access_type.kind = "Tail" ->
            JsonObject(<< <<K_output, JBool(output)>>,
                          <<K_raw, JBool(raw)>>,
                          <<K_unique, JBool(unique)>>,
                          <<K_hist_access_type, JStr(TailLiteral)>>,
                          <<K_session, JNull>>,
                          <<K_start, JNull>>,
                          <<K_stop, JNull>>,
                          <<K_n, JNum(hist_access_type.n)>>,
                          <<K_pattern, JNull>> >>)
      [] hist_access_type.kind = "Range" ->
            JsonObject(<< <<K_output, JBool(output)>>,
                          <<K_raw, JBool(raw)>>,
                          <<K_unique, JBool(unique)>>,
                          <<K_hist_access_type, JStr(TailLiteral)>>,
                          <<K_session, JNum(hist_access_type.session)>>,
                          <<K_start, JNum(hist_access_type.start)>>,
                          <<K_stop, JNum(hist_access_type.stop)>>,
                          <<K_n, JNull>>,
                          <<K_pattern, JNull>> >>)
      [] hist_access_type.kind = "Search" ->
            JsonObject(<< <<K_output, JBool(output)>>,
                          <<K_raw, JBool(raw)>>,
                          <<K_unique, JBool(unique)>>,
                          <<K_hist_access_type, JStr(TailLiteral)>>,
                          <<K_session, JNull>>,
                          <<K_start, JNull>>,
                          <<K_stop, JNull>>,
                          <<K_n, JNull>>,
                          <<K_pattern, JStr(hist_access_type.pattern)>> >>)

\* Whether the arm calls serde_json::to_string (KernelInfo uses a literal).
SerializesContent(c) == c.variant # "KernelInfo"

\* The value each arm hands to serde_json::to_string.
ContentValueOf(c) ==
    CASE c.variant = "Execute"    -> SerializeCommand(c)
      [] c.variant = "Inspect"    -> SerializeCommand(c)
      [] c.variant = "Complete"   -> SerializeCommand(c)
      [] c.variant = "History"    ->
            HistoryContent(c.output, c.raw, c.hist_access_type, c.unique)
      [] c.variant = "IsComplete" -> JsonObject(<< <<K_code, JStr(c.code)>> >>)
      [] c.variant = "Shutdown"   -> JsonObject(<< <<K_restart, JBool(c.restart)>> >>)

\* content_str.into_bytes() of a successful serde_json::to_string.
ContentBytesOf(c) == Render(ContentValueOf(c))


\* Mutant: the KernelInfo arm serializes the command like the arms below it.
WireOf_KernelInfoSerialized(c, header_bytes, content, a) ==
    [header |-> header_bytes, parent_header |-> EmptyBytes, metadata |-> EmptyBytes,
     content |-> IF c.variant = "KernelInfo" THEN Render(SerializeCommand(c)) ELSE content,
     auth |-> a]

\* Mutant: the History arm fills metadata with the content buffer.
WireOf_MetadataFromContent(c, header_bytes, content, a) ==
    [header |-> header_bytes, parent_header |-> EmptyBytes,
     metadata |-> IF c.variant = "History" THEN content ELSE EmptyBytes,
     content |-> IF c.variant = "KernelInfo" THEN EmptyBytes ELSE content,
     auth |-> a]

\* The WireMessage literal each arm returns.
WireOf(c, header_bytes, content, a) ==
    CASE c.variant = "KernelInfo" ->
            [header |-> header_bytes, parent_header |-> EmptyBytes,
             metadata |-> EmptyBytes, content |-> EmptyBytes, auth |-> a]
      [] c.variant = "Execute" ->
            [header |-> header_bytes, parent_header |-> EmptyBytes,
             metadata |-> EmptyBytes, content |-> content, auth |-> a]
      [] c.variant = "Inspect" ->
            [header |-> header_bytes, parent_header |-> EmptyBytes,
             metadata |-> EmptyBytes, content |-> content, auth |-> a]
      [] c.variant = "Complete" ->
            [header |-> header_bytes, parent_header |-> EmptyBytes,
             metadata |-> EmptyBytes, content |-> content, auth |-> a]
      [] c.variant = "History" ->
            [header |-> header_bytes, parent_header |-> EmptyBytes,
             metadata |-> EmptyBytes, content |-> content, auth |-> a]
      [] c.variant = "IsComplete" ->
            [header |-> header_bytes, parent_header |-> EmptyBytes,
             metadata |-> EmptyBytes, content |-> content, auth |-> a]
      [] c.variant = "Shutdown" ->
            [header |-> header_bytes, parent_header |-> EmptyBytes,
             metadata |-> EmptyBytes, content |-> content, auth |-> a]

(***************************************************************************)
(* State: one into_wire call per caller.  cmd and auth are the arguments;  *)
(* pc is the position inside the call; header, header_bytes and content    *)
(* are the call's locals (header_bytes and content hold the Result of the  *)
(* fallible call before `?`); result is the returned value.                *)
(***************************************************************************)
VARIABLES cmd, auth, pc, header, header_bytes, content, result

vars == <<cmd, auth, pc, header, header_bytes, content, result>>

Callers == DOMAIN pc

\* Commands used when several callers run at once.
SampleCommands ==
    { [variant |-> "KernelInfo"],
      [variant |-> "Inspect", code |-> <<"\"">>, cursor_pos |-> 10, detail_level |-> "One"],
      [variant |-> "History", output |-> TRUE, raw |-> FALSE,
       hist_access_type |-> [kind |-> "Range", session |-> -12, start |-> 0, stop |-> 7],
       unique |-> TRUE],
      [variant |-> "Shutdown", restart |-> TRUE] }

InitOver(T, cmds) ==
    /\ cmd \in [T -> cmds]
    /\ auth \in [T -> Auths]
    /\ pc = [t \in T |-> "new"]
    /\ header = [t \in T |-> None]
    /\ header_bytes = [t \in T |-> None]
    /\ content = [t \in T |-> None]
    /\ result = [t \in T |-> None]

\* One caller, any command.
Init == InitOver({1}, Command)

\* Several callers, each with its own command.
ConcInit ==
    /\ InitOver(1..NThreads, SampleCommands)
    /\ \A t1, t2 \in 1..NThreads : t1 # t2 => cmd[t1] # cmd[t2]

\* let header = Header::new("...");
NewHeader(t) ==
    /\ pc[t] = "new"
    /\ \E id \in MsgIds :
          header' = [header EXCEPT ![t] = Header_new(MsgTypeOf(cmd[t]), id)]
    /\ pc' = [pc EXCEPT ![t] = "to_bytes"]
    /\ UNCHANGED <<cmd, auth, header_bytes, content, result>>

\* let header_bytes = header.to_bytes()?;   -- the call succeeds
ToBytesOk(t) ==
    /\ pc[t] = "to_bytes"
    /\ header_bytes' = [header_bytes EXCEPT ![t] = Ok(Header_to_bytes(header[t]))]
    /\ pc' = [pc EXCEPT ![t] = IF SerializesContent(cmd[t]) THEN "to_string" ELSE "build"]
    /\ UNCHANGED <<cmd, auth, header, content, result>>


\* Mutant: the header failure is converted as a serialization failure.
ToBytesErr_AsContent(t) ==
    /\ pc[t] = "to_bytes"
    /\ header_bytes' = [header_bytes EXCEPT ![t] = Err(HeaderError)]
    /\ result' = [result EXCEPT ![t] = Err(ErrorFrom(JsonError))]
    /\ pc' = [pc EXCEPT ![t] = "returned"]
    /\ UNCHANGED <<cmd, auth, header, content>>

\* let header_bytes = header.to_bytes()?;   -- the call fails, `?` returns
ToBytesErr(t) ==
    /\ pc[t] = "to_bytes"
    /\ header_bytes' = [header_bytes EXCEPT ![t] = Err(HeaderError)]
    /\ result' = [result EXCEPT ![t] = Err(ErrorFrom(HeaderError))]
    /\ pc' = [pc EXCEPT ![t] = "returned"]
    /\ UNCHANGED <<cmd, auth, header, content>>


\* Mutant: the serialized content goes to a buffer all callers share.
ToStringOk_Shared(t) ==
    /\ pc[t] = "to_string"
    /\ content' = [u \in Callers |-> Ok(ContentBytesOf(cmd[t]))]
    /\ pc' = [pc EXCEPT ![t] = "build"]
    /\ UNCHANGED <<cmd, auth, header, header_bytes, result>>

\* let content_str = serde_json::to_string(..)?;  -- the call succeeds
ToStringOk(t) ==
    /\ pc[t] = "to_string"
    /\ content' = [content EXCEPT ![t] = Ok(ContentBytesOf(cmd[t]))]
    /\ pc' = [pc EXCEPT ![t] = "build"]
    /\ UNCHANGED <<cmd, auth, header, header_bytes, result>>


\* Mutant: a failed serialization is swallowed and a message with an empty
\* content buffer is returned.
ToStringErr_Partial(t) ==
    /\ pc[t] = "to_string"
    /\ content' = [content EXCEPT ![t] = Err(JsonError)]
    /\ result' = [result EXCEPT ![t] = Ok(WireOf(cmd[t], header_bytes[t].v, <<>>, auth[t]))]
    /\ pc' = [pc EXCEPT ![t] = "returned"]
    /\ UNCHANGED <<cmd, auth, header, header_bytes>>

\* let content_str = serde_json::to_string(..)?;  -- the call fails, `?` returns
ToStringErr(t) ==
    /\ pc[t] = "to_string"
    /\ content' = [content EXCEPT ![t] = Err(JsonError)]
    /\ result' = [result EXCEPT ![t] = Err(ErrorFrom(JsonError))]
    /\ pc' = [pc EXCEPT ![t] = "returned"]
    /\ UNCHANGED <<cmd, auth, header, header_bytes>>

\* Ok(WireMessage { .. })
ReturnOk(t) ==
    /\ pc[t] = "build"
    /\ result' = [result EXCEPT ![t] =
                    Ok(WireOf(cmd[t], header_bytes[t].v,
                              IF SerializesContent(cmd[t]) THEN content[t].v ELSE None,
                              auth[t]))]
    /\ pc' = [pc EXCEPT ![t] = "returned"]
    /\ UNCHANGED <<cmd, auth, header, header_bytes, content>>

Next ==
    \/ \E t \in Callers : NewHeader(t)
    \/ \E t \in Callers : ToBytesOk(t)
    \/ \E t \in Callers : ToBytesErr(t)
    \/ \E t \in Callers : ToStringOk(t)
    \/ \E t \in Callers : ToStringErr(t)
    \/ \E t \in Callers : ReturnOk(t)

Spec == Init /\ [][Next]_vars

ConcSpec == ConcInit /\ [][Next]_vars

\* into_wire as one function of its arguments and of what its collaborators
\* return: the header's message id, and whether each fallible call succeeds.
into_wire(c, a, id, to_bytes_ok, to_string_ok) ==
    IF ~to_bytes_ok THEN Err(ErrorFrom(HeaderError))
    ELSE IF SerializesContent(c) /\ ~to_string_ok THEN Err(ErrorFrom(JsonError))
    ELSE Ok(WireOf(c, Header_to_bytes(Header_new(MsgTypeOf(c), id)),
                   IF SerializesContent(c) THEN ContentBytesOf(c) ELSE None, a))

(***************************************************************************)
(* Properties.                                                             *)
(***************************************************************************)
Variants ==
    {"KernelInfo", "Execute", "Inspect", "Complete", "History", "IsComplete", "Shutdown"}

\* The decoded content of caller t's returned WireMessage.
DecodedContent(t) == Decode(result[t].v.content)

ReturnedOk(t) == pc[t] = "returned" /\ IsOk(result[t])

ReturnedErr(t) == pc[t] = "returned" /\ IsErr(result[t])

\* The decoded object a HashMap<String, String> instance round-trips to.
DecodedHashMap(h) ==
    JMap([k \in {h[i][1] : i \in 1..Len(h)} |->
            JStr(h[CHOOSE i \in 1..Len(h) : h[i][1] = k][2])])

\* The message-type string the protocol fixes for each variant.
RequestType ==
    [v \in Variants |->
        CASE v = "KernelInfo" -> "kernel_info_request"
          [] v = "Execute"    -> "execute_request"
          [] v = "Inspect"    -> "inspect_request"
          [] v = "Complete"   -> "complete_request"
          [] v = "History"    -> "history_request"
          [] v = "IsComplete" -> "is_complete_request"
          [] v = "Shutdown"   -> "shutdown_request"]

\* C1: every variant's header is built from exactly the message-type string
\* of the fixed mapping; the mapping covers the seven variants, the string
\* of one variant is never that of another, and the header buffer of a
\* returned message is the rendering of that header.
C1_MessageTypeMapping ==
    \A t \in Callers :
        /\ cmd[t].variant \in Variants
        /\ header[t] # None =>
              /\ header[t].msg_type = RequestType[cmd[t].variant]
              /\ \A v \in Variants \ {cmd[t].variant} : header[t].msg_type # RequestType[v]
        /\ ReturnedOk(t) => result[t].v.header = Header_to_bytes(header[t])

C1_Witness ==
    \E t \in Callers : ReturnedOk(t) /\ cmd[t].variant = "Complete"

SelectorKeys == {K_session, K_start, K_stop, K_n, K_pattern}

\* C2: the decoded content of a History request always holds all five
\* selector keys; the ones of the supplied access type carry its values and
\* the others are null; output, raw, unique carry the supplied values.
C2_HistorySelectors ==
    \A t \in Callers :
        (ReturnedOk(t) /\ cmd[t].variant = "History") =>
            LET d == DecodedContent(t)
                h == cmd[t].hist_access_type
            IN  /\ d.t = "map"
                /\ SelectorKeys \subseteq DOMAIN d.m
                /\ {K_output, K_raw, K_unique} \subseteq DOMAIN d.m
                /\ d.m[K_output] = JBool(cmd[t].output)
                /\ d.m[K_raw] = JBool(cmd[t].raw)
                /\ d.m[K_unique] = JBool(cmd[t].unique)
                /\ h.kind = "Tail" =>
                      /\ d.m[K_n] = JNum(h.n)
                      /\ \A k \in SelectorKeys \ {K_n} : d.m[k] = JNull
                /\ h.kind = "Range" =>
                      /\ d.m[K_session] = JNum(h.session)
                      /\ d.m[K_start] = JNum(h.start)
                      /\ d.m[K_stop] = JNum(h.stop)
                      /\ d.m[K_n] = JNull
                      /\ d.m[K_pattern] = JNull
                /\ h.kind = "Search" =>
                      /\ d.m[K_pattern] = JStr(h.pattern)
                      /\ \A k \in SelectorKeys \ {K_pattern} : d.m[k] = JNull

C2_Witness ==
    \E t \in Callers :
        /\ ReturnedOk(t)
        /\ cmd[t].variant = "History"
        /\ cmd[t].hist_access_type.kind = "Range"
        /\ cmd[t].hist_access_type.session < 0
        /\ cmd[t].hist_access_type.stop >= 10

\* C3: the hist_access_type key of a History content is the string "tail"
\* whichever access type was supplied, never "range" or "search".
C3_HistAccessTypeIsTail ==
    \A t \in Callers :
        (ReturnedOk(t) /\ cmd[t].variant = "History") =>
            LET d == DecodedContent(t)
            IN  /\ d.t = "map"
                /\ K_hist_access_type \in DOMAIN d.m
                /\ d.m[K_hist_access_type] = JStr(<<"t", "a", "i", "l">>)
                /\ d.m[K_hist_access_type] # JStr(<<"r", "a", "n", "g", "e">>)
                /\ d.m[K_hist_access_type] # JStr(<<"s", "e", "a", "r", "c", "h">>)

C3_Witness ==
    \E t \in Callers :
        /\ ReturnedOk(t)
        /\ cmd[t].variant = "History"
        /\ cmd[t].hist_access_type.kind = "Search"

\* C4: for Execute, Inspect, Complete, IsComplete and Shutdown, decoding the
\* content and reading the variant's fields gives back the command's fields.
C4_RoundTrip ==
    \A t \in Callers :
        ReturnedOk(t) =>
            LET d == DecodedContent(t)
                c == cmd[t]
                has(k) == d.t = "map" /\ k \in DOMAIN d.m
            IN  /\ c.variant = "Execute" =>
                      /\ has(K_code) /\ d.m[K_code] = JStr(c.code)
                      /\ has(K_silent) /\ d.m[K_silent] = JBool(c.silent)
                      /\ has(K_store_history)
                      /\ d.m[K_store_history] = JBool(c.store_history)
                      /\ has(K_user_expressions)
                      /\ d.m[K_user_expressions] = DecodedHashMap(c.user_expressions)
                      /\ has(K_allow_stdin) /\ d.m[K_allow_stdin] = JBool(c.allow_stdin)
                      /\ has(K_stop_on_error)
                      /\ d.m[K_stop_on_error] = JBool(c.stop_on_error)
                /\ c.variant = "Inspect" =>
                      /\ has(K_code) /\ d.m[K_code] = JStr(c.code)
                      /\ has(K_cursor_pos) /\ d.m[K_cursor_pos] = JNum(c.cursor_pos)
                      /\ has(K_detail_level)
                      /\ d.m[K_detail_level] =
                            JNum(IF c.detail_level = "Zero" THEN 0 ELSE 1)
                /\ c.variant = "Complete" =>
                      /\ has(K_code) /\ d.m[K_code] = JStr(c.code)
                      /\ has(K_cursor_pos) /\ d.m[K_cursor_pos] = JNum(c.cursor_pos)
                /\ c.variant = "IsComplete" =>
                      has(K_code) /\ d.m[K_code] = JStr(c.code)
                /\ c.variant = "Shutdown" =>
                      has(K_restart) /\ d.m[K_restart] = JBool(c.restart)

C4_Witness ==
    \E t \in Callers :
        /\ ReturnedOk(t)
        /\ cmd[t].variant = "Execute"
        /\ Len(cmd[t].user_expressions) = 2
        /\ cmd[t].code = <<"\"">>
        /\ cmd[t].silent /\ ~cmd[t].store_history

\* The declared field names of each variant other than History.
FieldNames ==
    [v \in Variants \ {"History"} |->
        CASE v = "KernelInfo" -> {}
          [] v = "Execute"    -> {K_code, K_silent, K_store_history, K_user_expressions,
                                  K_allow_stdin, K_stop_on_error}
          [] v = "Inspect"    -> {K_code, K_cursor_pos, K_detail_level}
          [] v = "Complete"   -> {K_code, K_cursor_pos}
          [] v = "IsComplete" -> {K_code}
          [] v = "Shutdown"   -> {K_restart}]

\* C5: for every variant other than History the decoded content is an object
\* whose keys are exactly the variant's declared field names: the empty
\* object for KernelInfo, and no wrapper key or foreign field otherwise.
C5_ContentKeys ==
    \A t \in Callers :
        (ReturnedOk(t) /\ cmd[t].variant # "History") =>
            LET d == DecodedContent(t)
            IN  /\ d.t = "map"
                /\ DOMAIN d.m = FieldNames[cmd[t].variant]

C5_Witness ==
    \E t \in Callers : ReturnedOk(t) /\ cmd[t].variant = "KernelInfo"

\* C6: the parent_header and metadata buffers of every returned message are
\* exactly the two bytes "{}", whatever the command and the auth value.
C6_EmptyParentAndMetadata ==
    \A t \in Callers :
        ReturnedOk(t) =>
            /\ result[t].v.parent_header = <<"{", "}">>
            /\ result[t].v.metadata = <<"{", "}">>

C6_Witness ==
    \E t \in Callers :
        /\ ReturnedOk(t)
        /\ cmd[t].variant = "History"
        /\ auth[t] = "mac2"
        /\ result[t].v.content # <<"{", "}">>

\* C7: the detail_level key of an Inspect content is the JSON integer 0 for
\* Zero and 1 for One: never a string, a boolean or another integer.
C7_DetailLevelInteger ==
    \A t \in Callers :
        (ReturnedOk(t) /\ cmd[t].variant = "Inspect") =>
            LET d == DecodedContent(t)
            IN  /\ d.t = "map"
                /\ K_detail_level \in DOMAIN d.m
                /\ d.m[K_detail_level].t = "num"
                /\ d.m[K_detail_level].n \in {0, 1}
                /\ cmd[t].detail_level = "Zero" => d.m[K_detail_level].n = 0
                /\ cmd[t].detail_level = "One" => d.m[K_detail_level].n = 1

C7_Witness ==
    \E t \in Callers :
        ReturnedOk(t) /\ cmd[t].variant = "Inspect" /\ cmd[t].detail_level = "One"

WireFields == {"header", "parent_header", "metadata", "content", "auth"}

\* C8: a call whose header rendering or content serialization failed returns
\* an error and no message; a call in which both succeeded returns a message
\* with all four buffers populated; nothing is returned before the call ends.
C8_AllOrNothing ==
    \A t \in Callers :
        LET failed == IsErr(header_bytes[t]) \/ IsErr(content[t])
        IN  /\ pc[t] # "returned" => result[t] = None
            /\ pc[t] = "returned" => result[t] # None
            /\ failed => ReturnedErr(t) /\ DOMAIN result[t] = {"ok", "e"}
            /\ ReturnedErr(t) => failed
            /\ ReturnedOk(t) =>
                  /\ IsOk(header_bytes[t])
                  /\ SerializesContent(cmd[t]) => IsOk(content[t])
                  /\ DOMAIN result[t].v = WireFields
                  /\ \A f \in WireFields \ {"auth"} :
                        /\ result[t].v[f] # None
                        /\ Len(result[t].v[f]) > 0

C8_Witness ==
    \E t \in Callers : ReturnedErr(t) /\ IsErr(content[t]) /\ IsOk(header_bytes[t])

\* C9: a failed Header::to_bytes is returned as HeaderEncoding, a failed
\* content serialization as ContentEncoding; there is no third kind and the
\* two are never reported as one another.
C9_TypedErrors ==
    \A t \in Callers :
        ReturnedErr(t) =>
            /\ result[t].e \in {"HeaderEncoding", "ContentEncoding"}
            /\ IsErr(header_bytes[t]) <=> result[t].e = "HeaderEncoding"
            /\ IsErr(content[t]) <=> result[t].e = "ContentEncoding"

C9_Witness ==
    \E t \in Callers : ReturnedErr(t) /\ IsErr(header_bytes[t]) /\ content[t] = None

\* What a caller can observe of a result: the error, or the message without
\* the header's per-call fields (only its message type).
Observable(r, msg_type) ==
    IF r.ok
    THEN [ok |-> TRUE, msg_type |-> msg_type, parent_header |-> r.v.parent_header,
          metadata |-> r.v.metadata, content |-> r.v.content, auth |-> r.v.auth]
    ELSE r

\* The observable results of into_wire(c, a) when called on its own.
SequentialOutcomes(c, a) ==
    {Observable(into_wire(c, a, id, hb, cs), MsgTypeOf(c)) :
        id \in MsgIds, hb \in BOOLEAN, cs \in BOOLEAN}

\* C10: under every interleaving of concurrent calls on distinct commands,
\* each call returns what the same call returns when run on its own: the
\* same parent_header, metadata and content buffers and the same header
\* message type (or the same error).
C10_ConcurrentAsSequential ==
    \A t \in Callers :
        pc[t] = "returned" =>
            /\ result[t] # None
            /\ Observable(result[t], header[t].msg_type) \in SequentialOutcomes(cmd[t], auth[t])
            /\ IsOk(result[t]) => result[t].v.header = Header_to_bytes(header[t])

C10_Witness ==
    \E t1, t2 \in Callers :
        /\ t1 # t2
        /\ ReturnedOk(t1) /\ ReturnedOk(t2)
        /\ result[t1].v.content # result[t2].v.content
        /\ Len(result[t1].v.content) > 2 /\ Len(result[t2].v.content) > 2

====
